---- MODULE Spec2Model ----
(***************************************************************************)
(* Model of the completion / definition providers of vscode-markdown-notes *)
(* (src/src/completions.ts) and of the line-scanning helpers they use      *)
(* (util.ts, kept as src/unnamed/part_001).                                *)
(*                                                                         *)
(* Strings are sequences of one-character strings.  Offsets into a line    *)
(* are 0-based as in JavaScript: offset i lies between line[i] and         *)
(* line[i+1] of the 1-based TLA+ sequence.  An optional value (undefined   *)
(* or a value) is a sequence of length 0 or 1.                             *)
(***************************************************************************)
EXTENDS Naturals, Integers, Sequences, FiniteSets, TLC

VARIABLES
    workspaceFolders,   \* vscode.workspace.workspaceFolders: None or Some(<<root, ...>>)
    disk,               \* files on disk in findFiles enumeration order: [path, text]
    textDocuments,      \* vscode.workspace.textDocuments: [fileName, text]
    lastIndex,          \* lastIndex of each strategy's shared global matchRegex
    completion,         \* the last provideCompletionItems request and its response
    definition,         \* the last provideDefinition request and its response
    slugIn,             \* input of the slug computation (SpecSlug)
    slugOut,            \* results of slug and of slug applied twice (SpecSlug)
    titles,             \* what additionalStrategy returned (SpecTitles)
    utilCall,           \* one call of a util.ts function, step by step (SpecUtil)
    pass,               \* one candidate-collection pass, callback by callback (SpecPass)
    requests            \* provideDefinition requests in flight (SpecRace)

vars == <<workspaceFolders, disk, textDocuments, lastIndex, completion,
          definition, slugIn, slugOut, titles, utilCall, pass, requests>>

\* the variables of the step-by-step specifications
rest == <<titles, utilCall, pass, requests>>

None == <<>>
Some(v) == <<v>>

\* nothing of the step-by-step specifications has started
RestIdle == titles = None /\ utilCall = None /\ pass = None /\ requests = <<>>

(***************************************************************************)
(* Characters                                                              *)
(***************************************************************************)
\* the printable ASCII characters in code-unit order, starting at code 32
\* (code 96, the grave accent, is written "grave")
Ascii ==
    <<" ", "!", "\"", "#", "$", "%", "&", "'", "(", ")", "*", "+", ",", "-", ".", "/",
      "0", "1", "2", "3", "4", "5", "6", "7", "8", "9", ":", ";", "<", "=", ">", "?",
      "@", "A", "B", "C", "D", "E", "F", "G", "H", "I", "J", "K", "L", "M", "N", "O",
      "P", "Q", "R", "S", "T", "U", "V", "W", "X", "Y", "Z", "[", "\\", "]", "^", "_",
      "grave", "a", "b", "c", "d", "e", "f", "g", "h", "i", "j", "k", "l", "m", "n", "o",
      "p", "q", "r", "s", "t", "u", "v", "w", "x", "y", "z", "{", "|", "}", "~">>

\* UTF-16 code unit of a character
Code(c) == 31 + CHOOSE i \in 1..Len(Ascii) : Ascii[i] = c

UpperLetters == {Ascii[i] : i \in 34..59}
LowerLetters == {Ascii[i] : i \in 66..91}
Digits == {Ascii[i] : i \in 17..26}

\* \w of a JavaScript regular expression
IsWord(c) == c \in UpperLetters \cup LowerLetters \cup Digits \cup {"_"}
\* \s of a JavaScript regular expression (within the printable characters)
IsSpace(c) == c = " "
\* String.prototype.toLowerCase on one character
ToLowerChar(c) == IF c \in UpperLetters THEN Ascii[Code(c) - 31 + 32] ELSE c

(***************************************************************************)
(* String helpers                                                          *)
(***************************************************************************)
\* String.prototype.slice(from, to) with 0-based offsets, 0 <= from, to
Slice(s, from, to) ==
    IF from >= to \/ from >= Len(s) THEN <<>>
    ELSE SubSeq(s, from + 1, IF to > Len(s) THEN Len(s) ELSE to)

RECURSIVE FilterChars(_, _)
\* the characters of s that are in the set keep, in order
FilterChars(s, keep) ==
    IF s = <<>> THEN <<>>
    ELSE (IF Head(s) \in keep THEN <<Head(s)>> ELSE <<>>) \o FilterChars(Tail(s), keep)

RECURSIVE TrimStart(_)
TrimStart(s) == IF s # <<>> /\ IsSpace(Head(s)) THEN TrimStart(Tail(s)) ELSE s

RECURSIVE TrimEnd(_)
TrimEnd(s) ==
    IF s # <<>> /\ IsSpace(s[Len(s)]) THEN TrimEnd(SubSeq(s, 1, Len(s) - 1)) ELSE s

\* String.prototype.trim
Trim(s) == TrimEnd(TrimStart(s))

RECURSIVE HyphenateSpaces(_)
\* s.replace(/\s+/g, "-"): each maximal run of whitespace becomes one hyphen
HyphenateSpaces(s) ==
    IF s = <<>> THEN <<>>
    ELSE IF IsSpace(Head(s)) THEN <<"-">> \o HyphenateSpaces(TrimStart(s))
    ELSE <<Head(s)>> \o HyphenateSpaces(Tail(s))

ToLowerCase(s) == [i \in 1..Len(s) |-> ToLowerChar(s[i])]

\* the characters kept by s.replace(/[^\w\s-]/g, "")
SlugKeep == UpperLetters \cup LowerLetters \cup Digits \cup {"_", " ", "-"}

\* the character class /[^\w\s]/, the hyphen forgotten: what the slug would be without it
SlugKeepNoHyphen == UpperLetters \cup LowerLetters \cup Digits \cup {"_", " "}

SluggedNoHyphen(selectedWord) ==
    ToLowerCase(HyphenateSpaces(Trim(FilterChars(selectedWord, SlugKeepNoHyphen))))

\* completions.ts 237-241: the slug of the selected word
Slugged(selectedWord) ==
    ToLowerCase(HyphenateSpaces(Trim(FilterChars(selectedWord, SlugKeep))))

\* true iff a sorts strictly before b in code-unit order (Array.prototype.sort default)
RECURSIVE StrLess(_, _)
StrLess(a, b) ==
    IF b = <<>> THEN FALSE
    ELSE IF a = <<>> THEN TRUE
    ELSE IF Head(a) = Head(b) THEN StrLess(Tail(a), Tail(b))
    ELSE Code(Head(a)) < Code(Head(b))


RECURSIVE InsertSorted(_, _)
\* out with x inserted before the first element that sorts after it
InsertSorted(out, x) ==
    IF out = <<>> THEN <<x>>
    ELSE IF StrLess(x, Head(out)) THEN <<x>> \o out
    ELSE <<Head(out)>> \o InsertSorted(Tail(out), x)

RECURSIVE SortStrings(_)
\* Array.prototype.sort() without a comparator: ascending code-unit order
SortStrings(list) ==
    IF list = <<>> THEN <<>>
    ELSE InsertSorted(SortStrings(Tail(list)), Head(list))

\* Set.prototype.add: x is appended unless it is already an element
SetAdd(elements, x) ==
    IF \E i \in 1..Len(elements) : elements[i] = x THEN elements ELSE Append(elements, x)

RECURSIVE SetOfList(_)
\* [...new Set(list)]: the distinct elements in order of first insertion
SetOfList(list) ==
    IF list = <<>> THEN <<>>
    ELSE SetAdd(SetOfList(SubSeq(list, 1, Len(list) - 1)), list[Len(list)])

Range(f) == {f[i] : i \in DOMAIN f}

(***************************************************************************)
(* The strategy registry (completions.ts 85-153)                           *)
(***************************************************************************)
MarkdownCompletionStrategyPerson ==
    [type |-> "person", trigger |-> "@", matchGroup |-> 1, additionalStrategy |-> FALSE]
MarkdownCompletionStrategyTag ==
    [type |-> "tag", trigger |-> "#", matchGroup |-> 1, additionalStrategy |-> FALSE]
MarkdownCompletionStrategyProject ==
    [type |-> "project", trigger |-> "+", matchGroup |-> 1, additionalStrategy |-> FALSE]
MarkdownCompletionStrategyWikiLink ==
    [type |-> "wikiLink", trigger |-> "[", matchGroup |-> 2, additionalStrategy |-> TRUE]

\* the registry in reverse order
markdownCompletionStrategiesReversed ==
    <<MarkdownCompletionStrategyWikiLink, MarkdownCompletionStrategyProject,
      MarkdownCompletionStrategyTag, MarkdownCompletionStrategyPerson>>

markdownCompletionStrategies ==
    <<MarkdownCompletionStrategyPerson, MarkdownCompletionStrategyTag,
      MarkdownCompletionStrategyProject, MarkdownCompletionStrategyWikiLink>>

StrategyTypes == {"person", "tag", "project", "wikiLink"}

\* a regular expression of a strategy: kind is "rangeCheck" or "match"
Regex(strategy, kind) == [strategy |-> strategy, kind |-> kind]

(***************************************************************************)
(* The regular expressions, computed as the regex engine computes them     *)
(***************************************************************************)
\* the characters excluded from a person / tag / project body: [^\#\@\+\[\]\s]
TokenStop == {"#", "@", "+", "[", "]", " "}
\* the characters excluded from a wiki-link body: [^\]\r\n]
WikiStop == {"]"}

RECURSIVE RunEnd(_, _, _)
\* the end offset of the maximal run, starting at offset from, of characters
\* that are not in stop
RunEnd(line, from, stop) ==
    IF from >= Len(line) \/ line[from + 1] \in stop THEN from
    ELSE RunEnd(line, from + 1, stop)

\* a match [index, end) of a person / tag / project regex: match[0] = match[1]
TokenMatch(i, e, token) == Some([index |-> i, end |-> e, groups |-> <<token, token>>])

\* the body quantifier of a token regex, the body ending at offset e:
\* + in a matchRegex, * in a rangeCheckRegex
TokenBody(regex, line, i, e) ==
    IF e - (i + 1) >= (IF regex.kind = "match" THEN 1 ELSE 0)
    THEN TokenMatch(i, e, Slice(line, i, e))
    ELSE None

\* /(?<=\s|^)(T[^\#\@\+\[\]\s]*)/ and /(?<=\s|^)(T[^\#\@\+\[\]\s]+)/ tried at offset i
TokenMatchAt(regex, line, i) ==
    IF /\ i < Len(line)
       /\ line[i + 1] = regex.strategy.trigger
       /\ (i = 0 \/ IsSpace(line[i]))
    THEN TokenBody(regex, line, i, RunEnd(line, i + 1, TokenStop))
    ELSE None

\* a match [index, end) of a wiki-link regex: match[1] = "[[", match[0] = match[2]
WikiMatch(i, e, body) ==
    Some([index |-> i, end |-> e, groups |-> <<body, <<"[", "[">>, body>>])

\* the body of a wiki-link regex ending at offset e: ([^\]\r\n]+)(?=\]\]) in
\* the matchRegex, ([^\]\r\n]*) in the rangeCheckRegex
WikiBody(regex, line, i, e) ==
    IF regex.kind = "match" =>
           /\ e > i
           /\ e + 2 <= Len(line)
           /\ line[e + 1] = "]" /\ line[e + 2] = "]"
    THEN WikiMatch(i, e, Slice(line, i, e))
    ELSE None

\* /(?<=(?:\s|^)(\[\[))([^\]\r\n]*)/ and /(?<=(?:\s|^)(\[\[))([^\]\r\n]+)(?=\]\])/
\* tried at offset i
WikiMatchAt(regex, line, i) ==
    IF /\ i >= 2
       /\ line[i - 1] = "[" /\ line[i] = "["
       /\ (i = 2 \/ IsSpace(line[i - 2]))
    THEN WikiBody(regex, line, i, RunEnd(line, i, WikiStop))
    ELSE None

\* the match of regex that starts exactly at offset i, if any;
\* groups[k + 1] is match[k]
MatchAt(regex, line, i) ==
    IF regex.strategy.type = "wikiLink" THEN WikiMatchAt(regex, line, i)
    ELSE TokenMatchAt(regex, line, i)

RECURSIVE Exec(_, _, _)
RECURSIVE ExecAt(_, _, _, _)
\* m is the outcome of trying the regex at offset li
ExecAt(regex, line, li, m) ==
    IF m = None THEN Exec(regex, line, li + 1)
    ELSE [match |-> m, lastIndex |-> m[1].end]

\* RegExp.prototype.exec of a global regex whose lastIndex is li: the leftmost
\* match at or after li, and the new lastIndex (0 when there is none)
Exec(regex, line, li) ==
    IF li > Len(line) THEN [match |-> None, lastIndex |-> 0]
    ELSE ExecAt(regex, line, li, MatchAt(regex, line, li))

(***************************************************************************)
(* util.ts: the per-line callback and the line scanners                    *)
(***************************************************************************)
\* the closure built by extractMatchesLineProcessingStrategy; outputMatches and
\* the regex's lastIndex are carried in the scan state st
extractMatchesLineProcessingStrategy(regex, matchGroup, omit) ==
    [regex |-> regex, matchGroup |-> matchGroup, omit |-> omit]

\* the scan state after exec returned r: lastIndex moved, the group pushed
Pushed(callback, st, r) ==
    [st EXCEPT !.lastIndex = r.lastIndex,
               !.outputMatches = IF r.match = None THEN @
                                 ELSE Append(@, r.match[1].groups[callback.matchGroup + 1])]

\* a single exec per line where the code loops: lastIndex is left where the
\* first match ended
ExecLoopOnce(callback, line, st, r) == Pushed(callback, st, r)

RECURSIVE ExecLoopFrom(_, _, _)
RECURSIVE ExecLoop(_, _, _, _)
\* while ((match = regex.exec(line)) !== null) outputMatches.push(match[matchGroup]);
\* r is what exec just returned
ExecLoop(callback, line, st, r) ==
    IF r.match = None THEN Pushed(callback, st, r)
    ELSE ExecLoopFrom(callback, line, Pushed(callback, st, r))

ExecLoopFrom(callback, line, st) ==
    ExecLoop(callback, line, st, Exec(callback.regex, line, st.lastIndex))

\* line.slice(0, omit.start.character) + line.slice(omit.end.character) on the
\* omitted range's line, the line itself elsewhere
OmitFrom(omit, line, lineNumber) ==
    IF omit # None /\ omit[1].line = lineNumber
    THEN Slice(line, 0, omit[1].start) \o Slice(line, omit[1].end, Len(line))
    ELSE line

\* the callback with an if in the place of the while: one exec per line
LineCallbackOnce(callback, line, lineNumber, st) ==
    Pushed(callback, st,
           Exec(callback.regex, OmitFrom(callback.omit, line, lineNumber), st.lastIndex))

\* the callback (line, lineNumber) => {...} returned by
\* extractMatchesLineProcessingStrategy
LineCallback(callback, line, lineNumber, st) ==
    ExecLoopFrom(callback, OmitFrom(callback.omit, line, lineNumber), st)

RECURSIVE DeliverLines(_, _, _, _)
\* the callback invoked on lines[lineNumber + 1 ..] with increasing line numbers
DeliverLines(callback, lines, lineNumber, st) ==
    IF lineNumber >= Len(lines) THEN st
    ELSE DeliverLines(callback, lines, lineNumber + 1,
                      LineCallback(callback, lines[lineNumber + 1], lineNumber, st))

\* uri.fsPath / document.fileName: the path without the scheme
FsPath(uri) == [dir |-> uri.dir, base |-> uri.base]

\* the lines of the file at uri as they are on disk (no lines when it is absent)
FileText(files, uri) ==
    IF \E i \in 1..Len(files) : files[i].uri = uri
    THEN files[CHOOSE i \in 1..Len(files) : files[i].uri = uri].text
    ELSE <<>>

\* the scan state with one more source handed to a line scanner
Scanning(st, kind, uri) ==
    [st EXCEPT !.scanned = Append(@, [kind |-> kind, fsPath |-> FsPath(uri)])]

\* processFileLineByLine: every line of the on-disk file is delivered
processFileLineByLine(fileUri, callback, st) ==
    DeliverLines(callback, FileText(disk, fileUri), 0, Scanning(st, "file", fileUri))

\* processDocumentLineByLine: every line of the open document's buffer is delivered
processDocumentLineByLine(document, callback, st) ==
    DeliverLines(callback, document.text, 0, Scanning(st, "document", document.uri))

\* f.path.match(/\.(md)$/i)
MatchesMd(base) ==
    /\ Len(base) >= 3
    /\ base[Len(base) - 2] = "."
    /\ ToLowerChar(base[Len(base) - 1]) = "m"
    /\ ToLowerChar(base[Len(base)]) = "d"

\* path.parse(p).name: the base name without its extension; a leading dot
\* starts no extension
ParseName(base) ==
    LET dots == {i \in 2..Len(base) : base[i] = "."}
    IN IF dots = {} THEN base
       ELSE SubSeq(base, 1, (CHOOSE i \in dots : \A j \in dots : j <= i) - 1)

\* vscode.workspace.findFiles("**/*"): nothing without a workspace folder
FindFiles ==
    IF workspaceFolders = None THEN <<>>
    ELSE [i \in 1..Len(disk) |-> disk[i].uri]

\* getWorkspaceMarkdownFiles (util.ts 109-113)
getWorkspaceMarkdownFiles ==
    LET IsMd(f) == f.scheme = "file" /\ MatchesMd(f.base)
    IN SelectSeq(FindFiles, IsMd)

\* getWorkspaceMarkdownDocuments (util.ts 118-122)
getWorkspaceMarkdownDocuments ==
    LET IsMd(d) == MatchesMd(d.uri.base)
    IN SelectSeq(textDocuments, IsMd)

\* the byte order mark U+FEFF, one code unit
Bom == "bom"

RECURSIVE JoinLines(_)
\* the content of a file of the given lines
JoinLines(text) ==
    IF text = <<>> THEN <<>>
    ELSE IF Len(text) = 1 THEN text[1]
    ELSE text[1] \o <<"\n">> \o JoinLines(Tail(text))

\* the chunks of a file: those it is given with, else its whole content
ChunksOfFile(file) ==
    IF "chunks" \in DOMAIN file THEN file.chunks
    ELSE IF JoinLines(file.text) = <<>> THEN <<>>
    ELSE <<JoinLines(file.text)>>

\* the chunks fs.createReadStream(fileUri.fsPath) delivers as "data" events
ReadStream(files, uri) ==
    IF \E i \in 1..Len(files) : files[i].uri = uri
    THEN ChunksOfFile(files[CHOOSE i \in 1..Len(files) : files[i].uri = uri])
    ELSE <<>>

RECURSIVE IndexOf(_, _, _)
\* chunk.indexOf(c) searched from the 0-based offset from: -1 when absent
IndexOf(chunk, c, from) ==
    IF from >= Len(chunk) THEN -1
    ELSE IF chunk[from + 1] = c THEN from
    ELSE IndexOf(chunk, c, from + 1)

\* util.ts 23-25: acc = "", pos = 0
FirstLineStart == [acc |-> <<>>, pos |-> 0, closed |-> FALSE]

\* util.ts 26-35: the "data" handler; index is what indexOf returned
OnDataIndex(st, chunk, index) ==
    [acc |-> st.acc \o chunk,
     pos |-> IF index = -1 THEN st.pos + Len(chunk) ELSE st.pos + index,
     closed |-> index # -1]

OnData(st, chunk) == OnDataIndex(st, chunk, IndexOf(chunk, "\n", 0))

\* util.ts 36-38: the "close" handler resolves with the first line, a leading
\* byte order mark dropped
OnClose(st) ==
    Slice(st.acc, IF st.acc # <<>> /\ st.acc[1] = Bom THEN 1 ELSE 0, st.pos)

RECURSIVE ReadChunks(_, _, _)
\* the "data" events of a stream until the handler closed it or it ended
ReadChunks(st, chunks, k) ==
    IF k > Len(chunks) \/ st.closed THEN st
    ELSE ReadChunks(OnData(st, chunks[k]), chunks, k + 1)

\* readFirstLine of a file-scheme uri: the value the promise resolves with
readFirstLine(fileUri) ==
    OnClose(ReadChunks(FirstLineStart, ReadStream(disk, fileUri), 1))

\* the heading test firstLine.startsWith("#"), the blank forgotten
TitleOrNameHash(firstLine, f) ==
    IF Len(firstLine) >= 1 /\ firstLine[1] = "#"
    THEN Slice(firstLine, 2, Len(firstLine))
    ELSE ParseName(f.base)

\* completions.ts 131-134: the heading text after "# ", else the base name
TitleOrName(firstLine, f) ==
    IF Len(firstLine) >= 2 /\ firstLine[1] = "#" /\ firstLine[2] = " "
    THEN Slice(firstLine, 2, Len(firstLine))
    ELSE ParseName(f.base)

\* files.map(async f => ...) of additionalStrategy
TitlesOf(files) == [i \in 1..Len(files) |-> TitleOrName(readFirstLine(files[i]), files[i])]

\* MarkdownCompletionStrategyWikiLink.additionalStrategy (completions.ts 126-138)
additionalStrategy == TitlesOf(getWorkspaceMarkdownFiles)

(***************************************************************************)
(* The host's TextDocument.getWordRangeAtPosition                          *)
(***************************************************************************)
RECURSIVE AllMatches(_, _, _)
RECURSIVE AllMatchesAfter(_, _, _)
\* r is what exec returned; an empty match advances the scan by one character
AllMatchesAfter(regex, line, r) ==
    IF r.match = None THEN <<>>
    ELSE r.match \o AllMatches(regex, line,
                               IF r.match[1].end = r.match[1].index
                               THEN r.lastIndex + 1 ELSE r.lastIndex)

\* the successive matches of the global regex on the line, left to right
AllMatches(regex, line, li) == AllMatchesAfter(regex, line, Exec(regex, line, li))

\* the indices of the matches whose range contains the position
MatchesAround(ms, position) ==
    {k \in 1..Len(ms) :
        ms[k].index <= position.character /\ position.character <= ms[k].end}

\* the range of the first of the matches ms whose indices are hits
FirstRange(ms, hits, position) ==
    IF hits = {} THEN None
    ELSE Some([line |-> position.line,
               start |-> ms[CHOOSE k \in hits : \A j \in hits : k <= j].index,
               end |-> ms[CHOOSE k \in hits : \A j \in hits : k <= j].end])

WordRangeAmong(ms, position) == FirstRange(ms, MatchesAround(ms, position), position)

\* the range of the first match of regex on the position's line that contains
\* the position, or None
getWordRangeAtPosition(document, position, regex) ==
    WordRangeAmong(AllMatches(regex, document.text[position.line + 1], 0), position)

\* document.getText(range) of a single-line range
GetText(document, range) == Slice(document.text[range.line + 1], range.start, range.end)

(***************************************************************************)
(* completions.ts: MarkdownCompletionProvider.provideCompletionItems       *)
(***************************************************************************)
RECURSIVE FirstStrategy(_, _, _, _)
RECURSIVE FirstStrategyTry(_, _, _, _, _)
\* if (range === undefined) continue; foundStrategy = strategy; break;
FirstStrategyTry(strategies, document, position, kind, range) ==
    IF range = None THEN FirstStrategy(Tail(strategies), document, position, kind)
    ELSE Some([strategy |-> Head(strategies), range |-> range[1]])

\* for (let strategy of strategies) { range = getWordRangeAtPosition(...); ... }
FirstStrategy(strategies, document, position, kind) ==
    IF strategies = <<>> THEN None
    ELSE FirstStrategyTry(strategies, document, position, kind,
                          getWordRangeAtPosition(document, position,
                                                 Regex(Head(strategies), kind)))

RECURSIVE ScanFiles(_, _, _)
\* Promise.all(files.map(file => processFileLineByLine(file, matchingStrategy)))
ScanFiles(files, callback, st) ==
    IF files = <<>> THEN st
    ELSE ScanFiles(Tail(files), callback, processFileLineByLine(Head(files), callback, st))

RECURSIVE ScanDocuments(_, _, _)
\* Promise.all(openDocuments.map(d => processDocumentLineByLine(d, matchingStrategy)))
ScanDocuments(documents, callback, st) ==
    IF documents = <<>> THEN st
    ELSE ScanDocuments(Tail(documents), callback,
                       processDocumentLineByLine(Head(documents), callback, st))

\* the workspace files scanned from disk, every markdown file included
ClosedFilesUnfiltered(openDocuments) == getWorkspaceMarkdownFiles

\* completions.ts 186-189: the markdown files that are not open as a document
ClosedFiles(openDocuments) ==
    LET documentNameSet == {FsPath(openDocuments[i].uri) : i \in 1..Len(openDocuments)}
        NotOpen(f) == FsPath(f) \notin documentNameSet
    IN SelectSeq(getWorkspaceMarkdownFiles, NotOpen)

\* completions.ts 191-195: extractMatchesLineProcessingStrategy is called with
\* three arguments, so omit is undefined
OmitArgument(range) == None

\* the distinct labels in insertion order, unsorted
AssembleLabelsUnsorted(outputMatches) == SetOfList(outputMatches)

\* completions.ts 207-208: [...new Set(outputMatches)].sort()
AssembleLabels(outputMatches) == SortStrings(SetOfList(outputMatches))

CompletionItemKind(strategy) == IF strategy.type = "wikiLink" THEN "File" ELSE "Value"

\* .map(match => new vscode.CompletionItem(match, foundStrategy?.completionKind))
CompletionItems(labels, strategy) ==
    [i \in 1..Len(labels) |-> [label |-> labels[i], kind |-> CompletionItemKind(strategy)]]

\* completions.ts 204-211: the supplemental candidates are appended and the
\* list is assembled; st is the scan state after every scan completed
Assembled(found, st) ==
    [found |-> Some([type |-> found.strategy.type, range |-> found.range]),
     items |-> Some(CompletionItems(
                  AssembleLabels(st.outputMatches
                                     \o (IF found.strategy.additionalStrategy
                                         THEN additionalStrategy ELSE <<>>)),
                  found.strategy)),
     scanned |-> st.scanned,
     lastIndex |-> [lastIndex EXCEPT ![found.strategy.type] = st.lastIndex]]

\* completions.ts 185-203: the closed files, then the open documents are scanned
Collected(found, openDocuments) ==
    Assembled(found,
        ScanDocuments(openDocuments,
            extractMatchesLineProcessingStrategy(
                Regex(found.strategy, "match"), found.strategy.matchGroup,
                OmitArgument(found.range)),
            ScanFiles(ClosedFiles(openDocuments),
                extractMatchesLineProcessingStrategy(
                    Regex(found.strategy, "match"), found.strategy.matchGroup,
                    OmitArgument(found.range)),
                [outputMatches |-> <<>>, lastIndex |-> lastIndex[found.strategy.type],
                 scanned |-> <<>>])))

\* completions.ts 181-183: nothing is offered when no strategy matched
CompletionFor(found) ==
    IF found = None
    THEN [found |-> None, items |-> None, scanned |-> <<>>, lastIndex |-> lastIndex]
    ELSE Collected(found[1], getWorkspaceMarkdownDocuments)

\* the response of provideCompletionItems(document, position) and the
\* lastIndex the strategy's matchRegex is left with
CompletionResponse(document, position) ==
    CompletionFor(FirstStrategy(markdownCompletionStrategies, document, position,
                                "rangeCheck"))

(***************************************************************************)
(* completions.ts: MarkdownDefinitionProvider.provideDefinition            *)
(***************************************************************************)
MdExtension == <<".", "m", "d">>

\* vscode.Uri.file(format({dir: rootURI.fsPath, base: sluggedFileName + ".md"}))
NewUri(root, sluggedFileName) ==
    [scheme |-> "file", dir |-> root, base |-> sluggedFileName \o MdExtension]

\* a write that always adds a file, an existing one of the uri kept
WriteFileAppend(files, uri, text) == Append(files, [uri |-> uri, text |-> text])

\* the files on disk after workspace.fs.writeFile(uri, content)
WriteFile(files, uri, text) ==
    IF \E i \in 1..Len(files) : files[i].uri = uri
    THEN [i \in 1..Len(files) |->
             IF files[i].uri = uri THEN [files[i] EXCEPT !.text = text] ELSE files[i]]
    ELSE Append(files, [uri |-> uri, text |-> text])

\* completions.ts 223: provideDefinition iterates the whole registry
DefinitionStrategies == markdownCompletionStrategies

\* f.filter(f => parse(f.path).name === sluggedFileName)
FilesNamed(files, sluggedFileName) ==
    LET SameName(f) == ParseName(f.base) = sluggedFileName
    IN SelectSeq(files, SameName)

\* completions.ts 245-259: the file is created when none matched and a
\* workspace folder exists; the location is that of files[0]
Located(found, selectedWord, sluggedFileName, existing, files) ==
    [found |-> Some([type |-> found.strategy.type, range |-> found.range]),
     selectedWord |-> selectedWord,
     sluggedFileName |-> sluggedFileName,
     existing |-> existing,
     written |-> IF files = <<>> /\ workspaceFolders # None
                 THEN <<[uri |-> NewUri(workspaceFolders[1][1], sluggedFileName),
                         text |-> <<(<<"#", " ">> \o selectedWord)>>]>>
                 ELSE <<>>,
     location |-> Some([uri |-> IF files # <<>> THEN Some(files[1])
                                ELSE IF workspaceFolders # None
                                THEN Some(NewUri(workspaceFolders[1][1], sluggedFileName))
                                ELSE None,
                        line |-> 0, character |-> 0])]

\* completions.ts 237-244
Resolved(found, selectedWord, sluggedFileName, existing) ==
    Located(found, selectedWord, sluggedFileName, existing,
            FilesNamed(existing, sluggedFileName))

\* completions.ts 236
Selected(found, selectedWord, existing) ==
    Resolved(found, selectedWord, Slugged(selectedWord), existing)

\* completions.ts 232-234: undefined when no strategy's matchRegex matched
DefinitionFor(found, document, existing) ==
    IF found = None
    THEN [found |-> None, selectedWord |-> <<>>, sluggedFileName |-> <<>>,
          existing |-> existing, written |-> <<>>, location |-> None]
    ELSE Selected(found[1], GetText(document, found[1].range), existing)

\* the response of provideDefinition(document, position)
DefinitionResponse(document, position) ==
    DefinitionFor(FirstStrategy(DefinitionStrategies, document, position, "match"),
                  document, getWorkspaceMarkdownFiles)

(***************************************************************************)
(* The workspace the providers run in                                      *)
(***************************************************************************)
MaxOpen == 1         \* open text documents
MaxCreated == 1      \* files created by definition requests
MaxSlugLen == 4      \* length of the strings the slug is computed of

Uri(dir, base) == [scheme |-> "file", dir |-> dir, base |-> base]

\* "# A b" / "[[A b]]"
TextHeading ==
    << <<"#", " ", "A", " ", "b">>,
       <<"[", "[", "A", " ", "b", "]", "]">> >>
\* "[[a @b]] #t"
TextLinkTag == << <<"[", "[", "a", " ", "@", "b", "]", "]", " ", "#", "t">> >>
\* "@b +p [[a"
TextPerson == << <<"@", "b", " ", "+", "p", " ", "[", "[", "a">> >>

\* "[[!]] [[?]]"
TextBang == << <<"[", "[", "!", "]", "]", " ", "[", "[", "?", "]", "]">> >>

Texts == {TextHeading, TextLinkTag, TextPerson, TextBang}

FileSubAB == [uri |-> Uri("/w/s", <<"a", "-", "b", ".", "m", "d">>), text |-> TextLinkTag]
FileAB == [uri |-> Uri("/w", <<"a", "-", "b", ".", "m", "d">>), text |-> TextPerson]
FileC == [uri |-> Uri("/w", <<"c", ".", "m", "d">>), text |-> TextHeading]
FileK == [uri |-> Uri("/w", <<"k", ".", "m", "a", "r", "k", "d", "o", "w", "n">>),
          text |-> TextPerson]
FileU == [uri |-> Uri("/w", <<"U", ".", "M", "D">>), text |-> TextLinkTag]
FileX == [uri |-> Uri("/w", <<"x", ".", "t", "x", "t">>), text |-> TextPerson]

\* the files, in enumeration order, a workspace may start with
Layouts == {<<FileC>>, <<FileSubAB, FileC>>, <<FileSubAB, FileAB, FileC>>,
            <<FileK, FileU, FileX>>}

InitialFiles == {FileSubAB, FileAB, FileC, FileK, FileU, FileX}

\* no folder, one folder, two folders of which the second holds the files
Roots == {None, Some(<<"/w">>), Some(<<"/v", "/w">>)}

Positions(document) ==
    UNION {{[line |-> l, character |-> c] : c \in 0..Len(document.text[l + 1])} :
              l \in 0..(Len(document.text) - 1)}

ZeroLastIndex == [t \in StrategyTypes |-> 0]

\* the user opens a file of the disk in the editor
OpenTextDocument(i) ==
    /\ Len(textDocuments) < MaxOpen
    /\ \A d \in 1..Len(textDocuments) : textDocuments[d].uri # disk[i].uri
    /\ textDocuments' = Append(textDocuments, disk[i])
    /\ completion' = None
    /\ definition' = None
    /\ UNCHANGED <<workspaceFolders, disk, lastIndex, slugIn, slugOut, rest>>

\* the user edits the buffer of an open document without saving it
EditDocument(d, text) ==
    /\ textDocuments[d].text # text
    /\ textDocuments' = [textDocuments EXCEPT ![d].text = text]
    /\ completion' = None
    /\ definition' = None
    /\ UNCHANGED <<workspaceFolders, disk, lastIndex, slugIn, slugOut, rest>>

\* the user closes a document; unsaved edits are dropped
CloseTextDocument(d) ==
    /\ textDocuments' = [k \in 1..(Len(textDocuments) - 1) |->
                            IF k < d THEN textDocuments[k] ELSE textDocuments[k + 1]]
    /\ completion' = None
    /\ definition' = None
    /\ UNCHANGED <<workspaceFolders, disk, lastIndex, slugIn, slugOut, rest>>

\* the editor asks for completions at a position of an open document
\* previous: what the request just before returned, when it was this request
Completed(d, position, r) ==
    /\ completion' = Some([document |-> d, position |-> position,
                           found |-> r.found, items |-> r.items,
                           scanned |-> r.scanned,
                           previous |->
                               IF /\ completion # None
                                  /\ completion[1].document = d
                                  /\ completion[1].position = position
                               THEN Some(completion[1].items) ELSE None])
    /\ lastIndex' = r.lastIndex
    /\ definition' = None
    /\ UNCHANGED <<workspaceFolders, disk, textDocuments, slugIn, slugOut, rest>>

ProvideCompletionItems(d, position) ==
    Completed(d, position, CompletionResponse(textDocuments[d], position))

\* the number of files on disk that definition requests created
Created == Cardinality({i \in 1..Len(disk) : disk[i] \notin InitialFiles})

\* the lastIndex of the matchRegex objects after provideDefinition handed them
\* to getWordRangeAtPosition: the host resets the lastIndex of a regex it is
\* given, and the loop hands over the strategies up to the first that matches
LastIndexAfterDefinition(document, position) ==
    [t \in StrategyTypes |->
        IF \E k \in 1..Len(DefinitionStrategies) :
               /\ DefinitionStrategies[k].type = t
               /\ \A j \in 1..(k - 1) :
                      getWordRangeAtPosition(
                          document, position,
                          Regex(DefinitionStrategies[j], "match")) = None
        THEN 0 ELSE lastIndex[t]]

\* the editor asks for the definition at a position of an open document
Defined(d, position, r) ==
    /\ \A w \in Range(r.written) :
           (\A i \in 1..Len(disk) : disk[i].uri # w.uri) => Created < MaxCreated
    /\ definition' = Some([document |-> d, position |-> position,
                           found |-> r.found, selectedWord |-> r.selectedWord,
                           sluggedFileName |-> r.sluggedFileName,
                           existing |-> r.existing, written |-> r.written,
                           location |-> r.location])
    /\ disk' = IF r.written = <<>> THEN disk
               ELSE WriteFile(disk, r.written[1].uri, r.written[1].text)
    /\ lastIndex' = LastIndexAfterDefinition(textDocuments[d], position)
    /\ completion' = None
    /\ UNCHANGED <<workspaceFolders, textDocuments, slugIn, slugOut, rest>>

ProvideDefinition(d, position) ==
    Defined(d, position, DefinitionResponse(textDocuments[d], position))

(***************************************************************************)
(* Spec: completion requests in a workspace whose documents are opened,    *)
(* edited and closed                                                       *)
(***************************************************************************)
Init ==
    /\ workspaceFolders \in {None, Some(<<"/w">>)}
    /\ disk \in Layouts
    /\ textDocuments = <<>>
    /\ lastIndex = ZeroLastIndex
    /\ completion = None
    /\ definition = None
    /\ slugIn = <<>>
    /\ slugOut = None
    /\ RestIdle

Next ==
    \/ \E i \in 1..Len(disk) : OpenTextDocument(i)
    \/ \E d \in 1..Len(textDocuments), text \in Texts : EditDocument(d, text)
    \/ \E d \in 1..Len(textDocuments) : CloseTextDocument(d)
    \/ \E d \in 1..Len(textDocuments) :
           \E position \in Positions(textDocuments[d]) : ProvideCompletionItems(d, position)

Spec == Init /\ [][Next]_vars

(***************************************************************************)
(* SpecDefinition: definition requests on one open note                    *)
(***************************************************************************)
NoteUri == Uri("/w", <<"n", ".", "m", "d">>)

InitDefinition ==
    /\ workspaceFolders \in Roots
    /\ disk \in Layouts
    /\ \E text \in Texts : textDocuments = <<[uri |-> NoteUri, text |-> text]>>
    /\ lastIndex = ZeroLastIndex
    /\ completion = None
    /\ definition = None
    /\ slugIn = <<>>
    /\ slugOut = None
    /\ RestIdle

NextDefinition ==
    \/ \E d \in 1..Len(textDocuments), text \in Texts : EditDocument(d, text)
    \/ \E d \in 1..Len(textDocuments) :
           \E position \in Positions(textDocuments[d]) : ProvideDefinition(d, position)

SpecDefinition == InitDefinition /\ [][NextDefinition]_vars

(***************************************************************************)
(* SpecSlug: the slug of every short string                                *)
(***************************************************************************)
SlugChars == {"a", "B", " ", "-", "!", "_"}

SlugInputs == UNION {[1..n -> SlugChars] : n \in 0..MaxSlugLen}

InitSlug ==
    /\ slugIn \in SlugInputs
    /\ slugOut = None
    /\ workspaceFolders = None
    /\ disk = <<>>
    /\ textDocuments = <<>>
    /\ lastIndex = ZeroLastIndex
    /\ completion = None
    /\ definition = None
    /\ RestIdle

\* completions.ts 237-241 applied to slugIn, and applied to its own result
ComputeSlug ==
    /\ slugOut = None
    /\ slugOut' = Some([once |-> Slugged(slugIn), twice |-> Slugged(Slugged(slugIn))])
    /\ UNCHANGED <<slugIn, workspaceFolders, disk, textDocuments, lastIndex,
                   completion, definition, rest>>

NextSlug == ComputeSlug

SpecSlug == InitSlug /\ [][NextSlug]_vars

(***************************************************************************)
(* Definitions shared by the properties                                    *)
(***************************************************************************)
StrategyOfType(type) ==
    CHOOSE k \in {MarkdownCompletionStrategyPerson, MarkdownCompletionStrategyTag,
                  MarkdownCompletionStrategyProject, MarkdownCompletionStrategyWikiLink} :
        k.type = type

\* person, tag, project, wiki-link
Priority(type) ==
    CASE type = "person" -> 1 [] type = "tag" -> 2 [] type = "project" -> 3
      [] type = "wikiLink" -> 4

\* the tokens the strategy's matchRegex captures in a text scanned from a
\* regex at rest, in order
TokensIn(strategy, text) ==
    DeliverLines(extractMatchesLineProcessingStrategy(
                     Regex(strategy, "match"), strategy.matchGroup, None),
                 text, 0,
                 [outputMatches |-> <<>>, lastIndex |-> 0, scanned |-> <<>>]).outputMatches

\* the same with the range cut out of its line first
TokensOutside(strategy, text, range) ==
    DeliverLines(extractMatchesLineProcessingStrategy(
                     Regex(strategy, "match"), strategy.matchGroup, Some(range)),
                 text, 0,
                 [outputMatches |-> <<>>, lastIndex |-> 0, scanned |-> <<>>]).outputMatches

\* the indices of the open markdown documents and of the markdown files of the
\* workspace enumeration
OpenMd == {d \in 1..Len(textDocuments) : MatchesMd(textDocuments[d].uri.base)}
EnumeratedMd ==
    {i \in 1..Len(disk) :
        workspaceFolders # None /\ disk[i].uri.scheme = "file" /\ MatchesMd(disk[i].uri.base)}
IsOpen(i) == \E d \in OpenMd : FsPath(textDocuments[d].uri) = FsPath(disk[i].uri)

\* the tokens of the sources a collection pass is to scan: the buffers of the
\* open documents and the on-disk text of the files that are not open
ScannedTokens(strategy) ==
    UNION ({Range(TokensIn(strategy, textDocuments[d].text)) : d \in OpenMd}
           \cup {Range(TokensIn(strategy, disk[i].text)) : i \in EnumeratedMd \ {j \in EnumeratedMd : IsOpen(j)}})

\* the candidates of the supplemental producer of the strategy
Supplemental(strategy) ==
    IF strategy.additionalStrategy THEN Range(additionalStrategy) ELSE {}

Labels(items) == [i \in 1..Len(items) |-> items[i].label]

(***************************************************************************)
(* C8                                                                      *)
(***************************************************************************)
MyMeetingNotes ==
    <<"M", "y", " ", "M", "e", "e", "t", "i", "n", "g", " ", "N", "o", "t", "e", "s">>
MyMeetingNotesSlug ==
    <<"m", "y", "-", "m", "e", "e", "t", "i", "n", "g", "-", "n", "o", "t", "e", "s">>

\* C8: the slug is idempotent, slug(slug(x)) = slug(x) for every input x, and
\* slug("My Meeting Notes") = "my-meeting-notes"
C8_SlugIdempotent ==
    /\ slugOut # None => slugOut[1].twice = slugOut[1].once
    /\ Slugged(MyMeetingNotes) = MyMeetingNotesSlug

\* an input with interior whitespace was slugged: the hyphen is the slug's own
C8_Witness ==
    /\ slugOut # None
    /\ "-" \in Range(slugOut[1].once)
    /\ "-" \notin Range(slugIn)
    /\ "!" \in Range(slugIn)

(***************************************************************************)
(* C1                                                                      *)
(***************************************************************************)
\* [from, to) of the line is a maximal run of characters outside stop
MaximalRun(line, from, to, stop) ==
    /\ \A k \in (from + 1)..to : line[k] \notin stop
    /\ (to = Len(line) \/ line[to + 1] \in stop)

\* the incomplete pattern of the strategy matches a span [from, to] of the
\* line that contains the offset ch
IncompleteAround(type, line, ch) ==
    \E from \in 0..ch : \E to \in ch..Len(line) :
        IF type = "wikiLink"
        THEN /\ from >= 2
             /\ line[from - 1] = "[" /\ line[from] = "["
             /\ (from = 2 \/ line[from - 2] = " ")
             /\ MaximalRun(line, from, to, {"]"})
        ELSE /\ from < to
             /\ line[from + 1] = StrategyOfType(type).trigger
             /\ (from = 0 \/ line[from] = " ")
             /\ MaximalRun(line, from + 1, to, {"#", "@", "+", "[", "]", " "})

\* the strategies whose incomplete pattern matches around the request's position
MatchingTypes(request) ==
    {type \in StrategyTypes :
        IncompleteAround(type,
                         textDocuments[request.document].text[request.position.line + 1],
                         request.position.character)}

\* C1: a completion request is classified as the first strategy in the order
\* person, tag, project, wiki-link whose incomplete pattern matches around the
\* position, with a range on the position's line that contains the position;
\* when no incomplete pattern matches it returns none and offers nothing
C1_FirstMatchingStrategy ==
    completion # None =>
        IF MatchingTypes(completion[1]) = {}
        THEN completion[1].found = None /\ completion[1].items = None
        ELSE /\ completion[1].found # None
             /\ completion[1].items # None
             /\ completion[1].found[1].type \in MatchingTypes(completion[1])
             /\ \A type \in MatchingTypes(completion[1]) :
                    Priority(completion[1].found[1].type) <= Priority(type)
             /\ completion[1].found[1].range.line = completion[1].position.line
             /\ completion[1].found[1].range.start <= completion[1].position.character
             /\ completion[1].position.character <= completion[1].found[1].range.end

\* a position inside a person token that lies inside a wiki-link was classified
C1_Witness ==
    /\ completion # None
    /\ MatchingTypes(completion[1]) = {"person", "wikiLink"}
    /\ completion[1].found # None

(***************************************************************************)
(* C2                                                                      *)
(***************************************************************************)
\* the text of the in-progress token of a classified completion request
InProgress(request) ==
    GetText(textDocuments[request.document], request.found[1].range)

\* the tokens that occur anywhere but in the in-progress span: in the closed
\* files, in the other open documents, and in the request's document with the
\* span cut out of the cursor's line
TokensElsewhere(request) ==
    UNION ({Range(TokensIn(StrategyOfType(request.found[1].type), textDocuments[d].text)) :
               d \in OpenMd \ {request.document}}
           \cup {Range(TokensIn(StrategyOfType(request.found[1].type), disk[i].text)) :
                    i \in EnumeratedMd \ {j \in EnumeratedMd : IsOpen(j)}}
           \cup {Range(TokensOutside(StrategyOfType(request.found[1].type),
                                     textDocuments[request.document].text,
                                     request.found[1].range))})

\* C2: the token being typed under the cursor is no candidate because of its
\* own occurrence: when its text occurs nowhere else in a scanned source and
\* the supplemental producer does not yield it, it is not among the items
C2_NoSelfCompletion ==
    (completion # None /\ completion[1].found # None) =>
        (InProgress(completion[1])
             \notin TokensElsewhere(completion[1])
                    \cup Supplemental(StrategyOfType(completion[1].found[1].type))
         => InProgress(completion[1]) \notin Range(Labels(completion[1].items[1])))

(***************************************************************************)
(* C3                                                                      *)
(***************************************************************************)
\* the entries of the scan log for the file disk[i]
ScansOf(request, i) ==
    {k \in 1..Len(request.scanned) : request.scanned[k].fsPath = FsPath(disk[i].uri)}

\* the open document of the file disk[i]
DocumentOf(i) ==
    textDocuments[CHOOSE d \in OpenMd : FsPath(textDocuments[d].uri) = FsPath(disk[i].uri)]

\* the file disk[i] was scanned exactly once, from its open document
ScannedOnceFromBuffer(request, i) ==
    /\ Cardinality(ScansOf(request, i)) = 1
    /\ \A k \in ScansOf(request, i) : request.scanned[k].kind = "document"

\* the tokens that only the on-disk text of the open file disk[i] holds
OnlyOnDisk(request, i) ==
    Range(TokensIn(StrategyOfType(request.found[1].type), disk[i].text))
        \ ScannedTokens(StrategyOfType(request.found[1].type))

\* C3 as stated: a file that is enumerated and open is scanned exactly once,
\* from the buffer; a token only its stale on-disk content holds is not
\* offered, and every token of its buffer is offered
C3_OpenDocumentPrecedence ==
    (completion # None /\ completion[1].found # None) =>
        \A i \in EnumeratedMd :
            IsOpen(i) =>
                /\ ScannedOnceFromBuffer(completion[1], i)
                /\ \A t \in OnlyOnDisk(completion[1], i) :
                       t \notin Range(Labels(completion[1].items[1]))
                /\ \A t \in Range(TokensIn(StrategyOfType(completion[1].found[1].type),
                                           DocumentOf(i).text)) :
                       t \in Range(Labels(completion[1].items[1]))

\* C3 amended: a file that is enumerated and open is scanned exactly once,
\* from the buffer; a token only its stale on-disk content holds is not
\* offered unless the supplemental producer yields the same string, and every
\* token of its buffer is offered
C3_OpenDocumentPrecedenceAmended ==
    (completion # None /\ completion[1].found # None) =>
        \A i \in EnumeratedMd :
            IsOpen(i) =>
                /\ ScannedOnceFromBuffer(completion[1], i)
                /\ \A t \in OnlyOnDisk(completion[1], i)
                              \ Supplemental(StrategyOfType(completion[1].found[1].type)) :
                       t \notin Range(Labels(completion[1].items[1]))
                /\ \A t \in Range(TokensIn(StrategyOfType(completion[1].found[1].type),
                                           DocumentOf(i).text)) :
                       t \in Range(Labels(completion[1].items[1]))

\* an open file whose buffer was edited: a token of the stale on-disk text is
\* not offered, and a token only the buffer holds is offered
C3_Witness ==
    /\ completion # None
    /\ completion[1].found # None
    /\ \E i \in EnumeratedMd :
           /\ IsOpen(i)
           /\ OnlyOnDisk(completion[1], i) \ Range(Labels(completion[1].items[1])) # {}
           /\ Range(TokensIn(StrategyOfType(completion[1].found[1].type), DocumentOf(i).text))
                  \ Range(TokensIn(StrategyOfType(completion[1].found[1].type), disk[i].text))
                  # {}

(***************************************************************************)
(* C4                                                                      *)
(***************************************************************************)
\* C4: the returned list is strictly ascending in code-unit order of its
\* labels, so no label occurs twice, and it holds every token captured from a
\* scanned source or yielded by the supplemental producer, and nothing else
C4_SortedDistinctComplete ==
    (completion # None /\ completion[1].items # None) =>
        /\ \A i \in 1..Len(completion[1].items[1]) :
               \A j \in (i + 1)..Len(completion[1].items[1]) :
                   StrLess(completion[1].items[1][i].label, completion[1].items[1][j].label)
        /\ Range(Labels(completion[1].items[1]))
               = ScannedTokens(StrategyOfType(completion[1].found[1].type))
                     \cup Supplemental(StrategyOfType(completion[1].found[1].type))

\* three labels were returned and one of them was captured in a closed file
\* and in an open document
C4_Witness ==
    /\ completion # None
    /\ completion[1].items # None
    /\ Len(completion[1].items[1]) >= 3
    /\ \E d \in OpenMd : \E i \in EnumeratedMd :
           /\ ~IsOpen(i)
           /\ Range(TokensIn(StrategyOfType(completion[1].found[1].type), disk[i].text))
                  \cap Range(TokensIn(StrategyOfType(completion[1].found[1].type),
                                      textDocuments[d].text)) # {}

(***************************************************************************)
(* C9                                                                      *)
(***************************************************************************)
\* C9: a completion request that repeats the request before it, the workspace
\* unchanged in between, returns the identical list
C9_SameRequestSameItems ==
    (completion # None /\ completion[1].previous # None) =>
        completion[1].previous[1] = completion[1].items

\* a request that returned candidates was repeated
C9_Witness ==
    /\ completion # None
    /\ completion[1].previous # None
    /\ completion[1].items # None
    /\ Len(completion[1].items[1]) >= 2

(***************************************************************************)
(* Definition requests                                                     *)
(***************************************************************************)
\* the line of the note a definition request was made on
RequestLine(request) ==
    textDocuments[request.document].text[request.position.line + 1]

\* [from, to) of the line is the text of a complete wiki-link: "[[" at the
\* start of the line or after a blank, a non-empty text without "]", "]]"
WikiLinkText(line, from, to) ==
    /\ 2 <= from /\ from < to /\ to + 2 <= Len(line)
    /\ line[from - 1] = "[" /\ line[from] = "["
    /\ (from = 2 \/ line[from - 2] = " ")
    /\ \A k \in (from + 1)..to : line[k] # "]"
    /\ line[to + 1] = "]" /\ line[to + 2] = "]"

\* the spans of the link texts of the complete wiki-links around the position
WikiLinksAround(request) ==
    {span \in (0..request.position.character)
                  \X (request.position.character..Len(RequestLine(request))) :
        WikiLinkText(RequestLine(request), span[1], span[2])}

\* the text of the complete wiki-link around the position
LinkText(request) ==
    Slice(RequestLine(request),
          (CHOOSE span \in WikiLinksAround(request) : TRUE)[1],
          (CHOOSE span \in WikiLinksAround(request) : TRUE)[2])

\* the existing markdown files whose base name is the slug of the link text
Targets(request) ==
    FilesNamed(request.existing, Slugged(LinkText(request)))

\* the position is on a complete person, tag or project token
PlainTokenAround(request) ==
    \E type \in {"person", "tag", "project"} :
        \E from \in 0..request.position.character :
            \E to \in request.position.character..Len(RequestLine(request)) :
                /\ from + 1 < to
                /\ RequestLine(request)[from + 1] = StrategyOfType(type).trigger
                /\ (from = 0 \/ RequestLine(request)[from] = " ")
                /\ MaximalRun(RequestLine(request), from + 1, to,
                              {"#", "@", "+", "[", "]", " "})

\* C5: a definition request on a complete wiki-link whose slug is the base
\* name of no existing markdown file writes exactly one file, slug + ".md" in
\* the first workspace root with the content "# " + the link text, and returns
\* the location of that file
C5_CreatesSlugFile ==
    (/\ definition # None
     /\ workspaceFolders # None
     /\ WikiLinksAround(definition[1]) # {}
     /\ Targets(definition[1]) = <<>>) =>
        /\ definition[1].written
               = <<[uri |-> NewUri(workspaceFolders[1][1], Slugged(LinkText(definition[1]))),
                    text |-> <<(<<"#", " ">> \o LinkText(definition[1]))>>]>>
        /\ definition[1].location
               = Some([uri |-> Some(NewUri(workspaceFolders[1][1],
                                           Slugged(LinkText(definition[1])))),
                       line |-> 0, character |-> 0])

\* C6: a definition request on a complete person, tag or project token that
\* is not inside a wiki-link returns none and writes no file
C6_OnlyWikiLinks ==
    (/\ definition # None
     /\ PlainTokenAround(definition[1])
     /\ WikiLinksAround(definition[1]) = {}) =>
        /\ definition[1].location = None
        /\ definition[1].written = <<>>

\* C7: a definition request on a wiki-link whose slug matches no existing
\* file, in a workspace without a root folder, returns none and writes no
\* file; it returns no location whose file is undefined
C7_NoRootReturnsNone ==
    (/\ definition # None
     /\ workspaceFolders = None
     /\ WikiLinksAround(definition[1]) # {}
     /\ Targets(definition[1]) = <<>>) =>
        /\ definition[1].location = None
        /\ definition[1].written = <<>>

\* C10: a definition request on a wiki-link whose slug is the base name of
\* existing markdown files returns the first of them in enumeration order at
\* line 0, column 0, and writes no file
C10_ExistingFileFirstMatch ==
    (/\ definition # None
     /\ WikiLinksAround(definition[1]) # {}
     /\ Targets(definition[1]) # <<>>) =>
        /\ definition[1].location
               = Some([uri |-> Some(Targets(definition[1])[1]),
                       line |-> 0, character |-> 0])
        /\ definition[1].written = <<>>

(***************************************************************************)
(* SpecTitles: the supplemental producer of the wiki-link strategy on      *)
(* files whose first lines and chunk boundaries vary                       *)
(***************************************************************************)
MaxChunks == 2       \* "data" events a file is delivered in

\* "", "#", "# ", "# T", "#T", "T", "#" / "# T", "# T" / "x", "" / "# T",
\* and "# T", "#" after a byte order mark
RawContents ==
    {<<>>, <<"#">>, <<"#", " ">>, <<"#", " ", "T">>, <<"#", "T">>, <<"T">>,
     <<"#", "\n", "#", " ", "T">>, <<"#", " ", "T", "\n", "x">>,
     <<"\n", "#", " ", "T">>, <<Bom, "#", " ", "T">>, <<Bom, "#">>}

RECURSIVE Chunkings(_, _)
\* the ways a stream delivers the content s in at most n non-empty chunks
Chunkings(s, n) ==
    IF s = <<>> THEN {<<>>}
    ELSE {<<s>>}
         \cup (IF n <= 1 THEN {}
               ELSE UNION {{<<Slice(s, 0, k)>> \o tail :
                               tail \in Chunkings(Slice(s, k, Len(s)), n - 1)} :
                           k \in 1..(Len(s) - 1)})

RawFiles(base) ==
    {[uri |-> Uri("/w", base), text |-> <<>>, chunks |-> chunks] :
        chunks \in UNION {Chunkings(s, MaxChunks) : s \in RawContents}}

InitTitles ==
    /\ workspaceFolders = Some(<<"/w">>)
    /\ \E f \in RawFiles(<<"t", ".", "m", "d">>) :
           \/ disk = <<f>>
           \/ \E g \in RawFiles(<<"u", ".", "M", "D">>) \cup RawFiles(<<"x", ".", "t", "x", "t">>) :
                  disk = <<f, g>> /\ Len(g.chunks) <= 1
    /\ textDocuments = <<>>
    /\ lastIndex = ZeroLastIndex
    /\ completion = None
    /\ definition = None
    /\ slugIn = <<>>
    /\ slugOut = None
    /\ RestIdle

\* the wiki-link strategy's additionalStrategy is awaited (completions.ts 205)
RunAdditionalStrategy ==
    /\ titles = None
    /\ titles' = Some(additionalStrategy)
    /\ UNCHANGED <<workspaceFolders, disk, textDocuments, lastIndex, completion,
                   definition, slugIn, slugOut, utilCall, pass, requests>>

NextTitles == RunAdditionalStrategy

SpecTitles == InitTitles /\ [][NextTitles]_vars

(***************************************************************************)
(* C11                                                                     *)
(***************************************************************************)
RECURSIVE Concat(_)
\* the content a sequence of chunks makes up
Concat(chunks) == IF chunks = <<>> THEN <<>> ELSE chunks[1] \o Concat(Tail(chunks))

\* the first line of a content: what precedes its first line ending, a
\* leading byte order mark aside
FirstLineOf(content) ==
    LET text == IF content # <<>> /\ content[1] = Bom THEN Tail(content) ELSE content
        ends == {k \in 1..Len(text) : text[k] = "\n"}
    IN IF ends = {} THEN text
       ELSE SubSeq(text, 1, (CHOOSE k \in ends : \A j \in ends : k <= j) - 1)

\* the candidate the claim expects of a file
ExpectedTitle(file) ==
    LET line == FirstLineOf(Concat(file.chunks))
    IN IF Len(line) >= 2 /\ SubSeq(line, 1, 2) = <<"#", " ">>
       THEN SubSeq(line, 3, Len(line))
       ELSE ParseName(file.uri.base)

\* the markdown files of the workspace, in enumeration order
MarkdownFilesOnDisk ==
    LET IsMd(file) == MatchesMd(file.uri.base)
    IN SelectSeq(disk, IsMd)

\* C11: the supplemental producer yields exactly one candidate for every
\* markdown file of the workspace: the rest of the first line after "# " when
\* the first line begins with "# ", else the base name without extension; a
\* file whose first line is exactly "#" yields its base name, never ""
C11_OneTitlePerFile ==
    titles # None =>
        /\ Len(titles[1]) = Len(MarkdownFilesOnDisk)
        /\ \A i \in 1..Len(MarkdownFilesOnDisk) :
               /\ titles[1][i] = ExpectedTitle(MarkdownFilesOnDisk[i])
               /\ FirstLineOf(Concat(MarkdownFilesOnDisk[i].chunks)) = <<"#">> =>
                      /\ titles[1][i] = ParseName(MarkdownFilesOnDisk[i].uri.base)
                      /\ titles[1][i] # <<>>

\* the producer ran on a file whose first line is exactly "#" and on a file
\* whose heading marker is split over two chunks
C11_Witness ==
    /\ titles # None
    /\ Len(titles[1]) = 2
    /\ FirstLineOf(Concat(disk[1].chunks)) = <<"#", " ", "T">>
    /\ Len(disk[1].chunks) = 2 /\ disk[1].chunks[1] = <<"#">>
    /\ FirstLineOf(Concat(disk[2].chunks)) = <<"#">>

(***************************************************************************)
(* SpecUtil: one call of readFirstLine, processFileLineByLine or           *)
(* processDocumentLineByLine, event by event; the callback handed to a     *)
(* line scanner records what it is invoked with                            *)
(***************************************************************************)
MaxLines == 3        \* lines of a scanned source

ScanLines == UNION {[1..n -> {<<"a">>, <<>>}] : n \in 0..MaxLines}

\* a file-scheme uri and an untitled (unsaved, not file-scheme) one
CallUris == {Uri("/w", <<"t", ".", "m", "d">>),
             [scheme |-> "untitled", dir |-> "/w", base |-> <<"t", ".", "m", "d">>]}

\* the ways a call's promise settles
Rejected(reason) == [kind |-> "rejected", value |-> <<reason>>]
ResolvedWith(value) == [kind |-> "resolved", value |-> value]

\* new Error("uri passed to readFirstLine must be a file.")
UsageError == Rejected("must be a file")

\* callback(line, lineNumber++): the number passed is the one before the increment
LineNumberPassedPre(lineNumber) == lineNumber + 1
LineNumberPassed(lineNumber) == lineNumber

\* the call with the callback invoked on the next line
Delivering(call) ==
    [call EXCEPT !.delivered = Append(@, [line |-> call.source[call.next + 1],
                                          lineNumber |-> LineNumberPassed(call.next)]),
                 !.next = @ + 1]

\* util.ts 16-25: the promise's executor; reject does not leave it, so the
\* read stream is created whatever the scheme is
CallReadFirstLine(uri, chunks) ==
    /\ utilCall = None
    /\ utilCall' = Some([fn |-> "readFirstLine", uri |-> uri, source |-> chunks,
                         next |-> 1, st |-> FirstLineStart,
                         opened |-> <<FsPath(uri)>>, delivered |-> <<>>,
                         outcome |-> IF uri.scheme # "file" THEN Some(UsageError) ELSE None,
                         pc |-> "reading"])
    /\ UNCHANGED <<workspaceFolders, disk, textDocuments, lastIndex, completion,
                   definition, slugIn, slugOut, titles, pass, requests>>

\* util.ts 26-35: a "data" event of the stream
StreamData ==
    /\ utilCall # None
    /\ utilCall[1].pc = "reading"
    /\ ~utilCall[1].st.closed
    /\ utilCall[1].next <= Len(utilCall[1].source)
    /\ utilCall' = Some([utilCall[1] EXCEPT
                            !.st = OnData(@, utilCall[1].source[utilCall[1].next]),
                            !.next = @ + 1])
    /\ UNCHANGED <<workspaceFolders, disk, textDocuments, lastIndex, completion,
                   definition, slugIn, slugOut, titles, pass, requests>>

\* util.ts 36-38: the "close" event, after rs.close() or the end of the file;
\* resolving a promise that is already rejected changes nothing
StreamClose ==
    /\ utilCall # None
    /\ utilCall[1].pc = "reading"
    /\ utilCall[1].st.closed \/ utilCall[1].next > Len(utilCall[1].source)
    /\ utilCall' = Some([utilCall[1] EXCEPT
                            !.outcome = IF @ = None
                                        THEN Some(ResolvedWith(OnClose(utilCall[1].st)))
                                        ELSE @,
                            !.pc = "closed"])
    /\ UNCHANGED <<workspaceFolders, disk, textDocuments, lastIndex, completion,
                   definition, slugIn, slugOut, titles, pass, requests>>

\* util.ts 39: the "error" event of a stream whose path cannot be read
StreamError ==
    /\ utilCall # None
    /\ utilCall[1].pc = "reading"
    /\ utilCall[1].next = 1
    /\ utilCall' = Some([utilCall[1] EXCEPT
                            !.outcome = IF @ = None THEN Some(Rejected("read")) ELSE @,
                            !.pc = "closed"])
    /\ UNCHANGED <<workspaceFolders, disk, textDocuments, lastIndex, completion,
                   definition, slugIn, slugOut, titles, pass, requests>>

\* util.ts 52-61: the throw rejects the call before anything is opened;
\* else the stream and the readline interface are created
CallProcessFileLineByLine(uri, lines) ==
    /\ utilCall = None
    /\ utilCall' = Some([fn |-> "processFileLineByLine", uri |-> uri, source |-> lines,
                         next |-> 0, st |-> FirstLineStart,
                         opened |-> IF uri.scheme # "file" THEN <<>> ELSE <<FsPath(uri)>>,
                         delivered |-> <<>>,
                         outcome |-> IF uri.scheme # "file" THEN Some(UsageError) ELSE None,
                         pc |-> IF uri.scheme # "file" THEN "closed" ELSE "lines"])
    /\ UNCHANGED <<workspaceFolders, disk, textDocuments, lastIndex, completion,
                   definition, slugIn, slugOut, titles, pass, requests>>

\* util.ts 61: a "line" event of the readline interface
LineEvent ==
    /\ utilCall # None
    /\ utilCall[1].pc = "lines"
    /\ utilCall[1].next < Len(utilCall[1].source)
    /\ utilCall' = Some(Delivering(utilCall[1]))
    /\ UNCHANGED <<workspaceFolders, disk, textDocuments, lastIndex, completion,
                   definition, slugIn, slugOut, titles, pass, requests>>

\* util.ts 63: the "close" event of the readline interface, emitted when the
\* input has ended and its lines have been emitted
CloseEvent ==
    /\ utilCall # None
    /\ utilCall[1].pc = "lines"
    /\ utilCall[1].next >= Len(utilCall[1].source)
    /\ utilCall' = Some([utilCall[1] EXCEPT !.outcome = Some(ResolvedWith(<<>>)),
                                            !.pc = "closed"])
    /\ UNCHANGED <<workspaceFolders, disk, textDocuments, lastIndex, completion,
                   definition, slugIn, slugOut, titles, pass, requests>>

\* util.ts 71-75: the call enters the loop over the document's lines
CallProcessDocumentLineByLine(uri, lines) ==
    /\ utilCall = None
    /\ utilCall' = Some([fn |-> "processDocumentLineByLine", uri |-> uri, source |-> lines,
                         next |-> 0, st |-> FirstLineStart,
                         opened |-> <<>>, delivered |-> <<>>,
                         outcome |-> None, pc |-> "loop"])
    /\ UNCHANGED <<workspaceFolders, disk, textDocuments, lastIndex, completion,
                   definition, slugIn, slugOut, titles, pass, requests>>

\* util.ts 75-78: one iteration of the loop
LoopIteration ==
    /\ utilCall # None
    /\ utilCall[1].pc = "loop"
    /\ utilCall[1].next < Len(utilCall[1].source)
    /\ utilCall' = Some(Delivering(utilCall[1]))
    /\ UNCHANGED <<workspaceFolders, disk, textDocuments, lastIndex, completion,
                   definition, slugIn, slugOut, titles, pass, requests>>

\* util.ts 75, 79: the loop condition fails and the call returns
LoopExit ==
    /\ utilCall # None
    /\ utilCall[1].pc = "loop"
    /\ ~(utilCall[1].next < Len(utilCall[1].source))
    /\ utilCall' = Some([utilCall[1] EXCEPT !.outcome = Some(ResolvedWith(<<>>)),
                                            !.pc = "closed"])
    /\ UNCHANGED <<workspaceFolders, disk, textDocuments, lastIndex, completion,
                   definition, slugIn, slugOut, titles, pass, requests>>

InitUtil ==
    /\ workspaceFolders = None
    /\ disk = <<>>
    /\ textDocuments = <<>>
    /\ lastIndex = ZeroLastIndex
    /\ completion = None
    /\ definition = None
    /\ slugIn = <<>>
    /\ slugOut = None
    /\ RestIdle

NextUtil ==
    \/ \E uri \in CallUris :
           \E chunks \in UNION {Chunkings(s, MaxChunks) : s \in RawContents} :
               CallReadFirstLine(uri, chunks)
    \/ StreamData
    \/ StreamClose
    \/ StreamError
    \/ \E uri \in CallUris, lines \in ScanLines : CallProcessFileLineByLine(uri, lines)
    \/ LineEvent
    \/ CloseEvent
    \/ \E uri \in CallUris, lines \in ScanLines : CallProcessDocumentLineByLine(uri, lines)
    \/ LoopIteration
    \/ LoopExit

SpecUtil == InitUtil /\ [][NextUtil]_vars

(***************************************************************************)
(* C12                                                                     *)
(***************************************************************************)
\* C12: a read of a source that is not file-scheme fails at once with a usage
\* error and does no partial work: neither processFileLineByLine nor
\* readFirstLine opens a read stream on the path or invokes a callback
C12_NonFileFailsWithoutWork ==
    (/\ utilCall # None
     /\ utilCall[1].fn \in {"readFirstLine", "processFileLineByLine"}
     /\ utilCall[1].uri.scheme # "file") =>
        /\ utilCall[1].outcome = Some(UsageError)
        /\ utilCall[1].opened = <<>>
        /\ utilCall[1].delivered = <<>>
        /\ utilCall[1].st = FirstLineStart

(***************************************************************************)
(* C14                                                                     *)
(***************************************************************************)
\* C14: a line scanner, of a file and of a document, invokes the callback
\* once per line with the indices 0, 1, 2, ... in increasing order, and the
\* scan completes only after the callback was invoked for the last line
C14_LinesInOrderThenDone ==
    (/\ utilCall # None
     /\ utilCall[1].fn \in {"processFileLineByLine", "processDocumentLineByLine"}
     /\ utilCall[1].outcome # Some(UsageError)) =>
        /\ Len(utilCall[1].delivered) <= Len(utilCall[1].source)
        /\ \A k \in 1..Len(utilCall[1].delivered) :
               utilCall[1].delivered[k] = [line |-> utilCall[1].source[k], lineNumber |-> k - 1]
        /\ utilCall[1].outcome # None =>
               Len(utilCall[1].delivered) = Len(utilCall[1].source)

\* a scan of a file of three lines completed
C14_Witness ==
    /\ utilCall # None
    /\ utilCall[1].fn = "processFileLineByLine"
    /\ utilCall[1].outcome = Some(ResolvedWith(<<>>))
    /\ Len(utilCall[1].delivered) = 3
    /\ utilCall[1].delivered[3].line # utilCall[1].delivered[2].line

(***************************************************************************)
(* C13                                                                     *)
(***************************************************************************)
\* the extension of a base name: what follows its last dot
Extension(base) ==
    LET dots == {i \in 2..Len(base) : base[i] = "."}
    IN IF dots = {} THEN <<>>
       ELSE SubSeq(base, (CHOOSE i \in dots : \A j \in dots : j <= i) + 1, Len(base))

\* the extension is md or markdown, in any case
IsMarkdownName(base) ==
    ToLowerCase(Extension(base)) \in {<<"m", "d">>, <<"m", "a", "r", "k", "d", "o", "w", "n">>}

\* C13: the workspace files and open documents a completion request scans
\* are exactly those whose extension is .md or .markdown in any case, the
\* files being file-scheme: note.markdown and NOTE.MD are scanned, a file of
\* another extension is not
C13_MarkdownExtensions ==
    (completion # None /\ completion[1].found # None) =>
        {completion[1].scanned[k].fsPath : k \in 1..Len(completion[1].scanned)}
            = {FsPath(disk[i].uri) :
                  i \in {j \in 1..Len(disk) : /\ workspaceFolders # None
                                              /\ disk[j].uri.scheme = "file"
                                              /\ IsMarkdownName(disk[j].uri.base)}}
              \cup {FsPath(textDocuments[d].uri) :
                       d \in {e \in 1..Len(textDocuments) :
                                 IsMarkdownName(textDocuments[e].uri.base)}}

(***************************************************************************)
(* SpecPass: provideCompletionItems with the file scans in flight at the   *)
(* same time, one "line" event at a time                                    *)
(***************************************************************************)
\* the callback of a pass (completions.ts 191-195)
PassCallback(p) ==
    extractMatchesLineProcessingStrategy(
        Regex(p.found.strategy, "match"), p.found.strategy.matchGroup,
        OmitArgument(p.found.range))

RECURSIVE ScanningAll(_, _)
\* files.map(file => processFileLineByLine(...)): every file scan is started
ScanningAll(files, st) ==
    IF files = <<>> THEN st
    ELSE ScanningAll(Tail(files), Scanning(st, "file", Head(files)))

\* Promise.race in the place of Promise.all: one file scan has closed
FileScansSettledAny(p) == \E i \in 1..Len(p.files) : p.closed[i]

\* await Promise.all(files.map(...)): every file scan has closed
FileScansSettled(p) == \A i \in 1..Len(p.files) : p.closed[i]

\* completions.ts 167-198: up to the first await with the file scans started;
\* repeated: a request was served before this one
Begun(d, position, found, openDocuments) ==
    [document |-> d, position |-> position, found |-> found,
     repeated |-> pass # None,
     openDocuments |-> openDocuments,
     files |-> ClosedFiles(openDocuments),
     next |-> [i \in 1..Len(ClosedFiles(openDocuments)) |-> 0],
     closed |-> [i \in 1..Len(ClosedFiles(openDocuments)) |-> FALSE],
     st |-> ScanningAll(ClosedFiles(openDocuments),
                        [outputMatches |-> <<>>,
                         lastIndex |-> lastIndex[found.strategy.type],
                         scanned |-> <<>>]),
     phase |-> "files",
     items |-> None]

BeginPassFound(d, position, found) ==
    /\ found # None
    /\ pass' = Some(Begun(d, position, found[1], getWorkspaceMarkdownDocuments))
    /\ UNCHANGED <<workspaceFolders, disk, textDocuments, lastIndex, completion,
                   definition, slugIn, slugOut, titles, utilCall, requests>>

\* the editor asks for completions; the request before has returned
BeginPass(d, position) ==
    /\ IF pass = None THEN TRUE ELSE pass[1].phase = "done"
    /\ BeginPassFound(d, position,
                      FirstStrategy(markdownCompletionStrategies, textDocuments[d],
                                    position, "rangeCheck"))

\* the pass after the callback ran to its end on a line: st is its scan state
AfterCallback(p, st) ==
    /\ lastIndex' = [lastIndex EXCEPT ![p.found.strategy.type] = st.lastIndex]
    /\ UNCHANGED <<workspaceFolders, disk, textDocuments, completion,
                   definition, slugIn, slugOut, titles, utilCall, requests>>

\* a "line" event of the scan of files[i]: the callback runs to its end
FileLine(i) ==
    /\ pass # None
    /\ pass[1].phase = "files"
    /\ i <= Len(pass[1].files)
    /\ pass[1].next[i] < Len(FileText(disk, pass[1].files[i]))
    /\ pass' = Some([pass[1] EXCEPT
                        !.st = LineCallback(PassCallback(pass[1]),
                                            FileText(disk, pass[1].files[i])[pass[1].next[i] + 1],
                                            pass[1].next[i], @),
                        !.next[i] = @ + 1])
    /\ AfterCallback(pass[1], pass'[1].st)

\* the "close" event of the scan of files[i]
FileClose(i) ==
    /\ pass # None
    /\ pass[1].phase = "files"
    /\ i <= Len(pass[1].files)
    /\ ~pass[1].closed[i]
    /\ pass[1].next[i] >= Len(FileText(disk, pass[1].files[i]))
    /\ pass' = Some([pass[1] EXCEPT !.closed[i] = TRUE])
    /\ UNCHANGED <<workspaceFolders, disk, textDocuments, lastIndex, completion,
                   definition, slugIn, slugOut, titles, utilCall, requests>>

\* completions.ts 196-203: the file scans are awaited, then the open
\* documents are scanned, each in one run of its loop
ScanOpenDocuments ==
    /\ pass # None
    /\ pass[1].phase = "files"
    /\ FileScansSettled(pass[1])
    /\ pass' = Some([pass[1] EXCEPT
                        !.st = ScanDocuments(pass[1].openDocuments, PassCallback(pass[1]), @),
                        !.phase = "documents"])
    /\ AfterCallback(pass[1], pass'[1].st)

\* completions.ts 204-211: the supplemental candidates, then the list
Assemble ==
    /\ pass # None
    /\ pass[1].phase = "documents"
    /\ pass' = Some([pass[1] EXCEPT
                        !.items = Assembled(pass[1].found, pass[1].st).items,
                        !.phase = "done"])
    /\ UNCHANGED <<workspaceFolders, disk, textDocuments, lastIndex, completion,
                   definition, slugIn, slugOut, titles, utilCall, requests>>

InitPass ==
    /\ workspaceFolders = Some(<<"/w">>)
    /\ disk \in Layouts
    /\ \E text \in Texts :
           textDocuments = <<[uri |-> Uri("/w", <<"n", ".", "m", "d">>), text |-> text]>>
    /\ lastIndex = ZeroLastIndex
    /\ completion = None
    /\ definition = None
    /\ slugIn = <<>>
    /\ slugOut = None
    /\ RestIdle

NextPass ==
    \/ \E d \in 1..Len(textDocuments) :
           \E position \in Positions(textDocuments[d]) : BeginPass(d, position)
    \/ \E i \in 1..Len(disk) : FileLine(i)
    \/ \E i \in 1..Len(disk) : FileClose(i)
    \/ ScanOpenDocuments
    \/ Assemble

SpecPass == InitPass /\ [][NextPass]_vars

(***************************************************************************)
(* C15                                                                     *)
(***************************************************************************)
\* C15: when the candidate list of a request is assembled every file scan
\* and every document scan has delivered all of its lines, and the list is
\* the one the scans yield one after the other, whatever the order in which
\* the callbacks of the sources appended to the shared accumulator
C15_AnyInterleavingSameItems ==
    (pass # None /\ pass[1].phase = "done") =>
        /\ \A i \in 1..Len(pass[1].files) :
               /\ pass[1].closed[i]
               /\ pass[1].next[i] = Len(FileText(disk, pass[1].files[i]))
        /\ Len(pass[1].st.scanned) = Len(pass[1].files) + Len(pass[1].openDocuments)
        /\ pass[1].items
               = CompletionResponse(textDocuments[pass[1].document], pass[1].position).items

\* a list was assembled of captures appended in another order than the
\* files are enumerated in
C15_Witness ==
    /\ pass # None
    /\ pass[1].phase = "done"
    /\ Len(pass[1].items[1]) >= 2
    /\ pass[1].st.outputMatches
           # ScanDocuments(pass[1].openDocuments, PassCallback(pass[1]),
                   ScanFiles(pass[1].files, PassCallback(pass[1]),
                             [outputMatches |-> <<>>, lastIndex |-> 0,
                              scanned |-> <<>>])).outputMatches

(***************************************************************************)
(* C19                                                                     *)
(***************************************************************************)
\* C19: the shared global matchRegex of every strategy has lastIndex 0
\* whenever a per-line callback starts, on every line of every source of a
\* request and of the requests after it: no callback is in progress between
\* two steps, so lastIndex is 0 in every state
C19_LastIndexZeroBetweenCallbacks ==
    /\ lastIndex = ZeroLastIndex
    /\ pass # None => pass[1].st.lastIndex = 0

\* a second request is scanning: a token at the beginning of a line was
\* captured after a capture on a line of another file
C19_Witness ==
    /\ pass # None
    /\ pass[1].repeated
    /\ pass[1].phase = "files"
    /\ pass[1].found.strategy.type = "person"
    /\ pass[1].st.outputMatches = <<<<"@", "b">>, <<"@", "b">>>>
    /\ pass[1].next = [i \in 1..Len(pass[1].files) |-> IF i <= 2 THEN 1 ELSE 0]

(***************************************************************************)
(* C16                                                                     *)
(***************************************************************************)
\* what the editor inserts for a completion item: its insertText, and its
\* label when the provider set none (completions.ts 210 sets none)
InsertedText(item) ==
    IF "insertText" \in DOMAIN item THEN item.insertText ELSE item.label

\* /\s/.test(line.charAt(range.end)): charAt past the end of the line is ""
HasWhiteSpaceAfter(request) ==
    /\ request.found[1].range.end
           < Len(textDocuments[request.document].text[request.found[1].range.line + 1])
    /\ IsSpace(textDocuments[request.document].text[request.found[1].range.line + 1]
                                                   [request.found[1].range.end + 1])

\* C16: the inserted text of every completion item is the candidate followed
\* by one space when the character right after the token range is no
\* whitespace (the end of the line included), and the candidate itself when
\* that character is whitespace
C16_InsertTextTrailingSpace ==
    (completion # None /\ completion[1].items # None) =>
        \A k \in 1..Len(completion[1].items[1]) :
            InsertedText(completion[1].items[1][k])
                = IF HasWhiteSpaceAfter(completion[1])
                  THEN completion[1].items[1][k].label
                  ELSE completion[1].items[1][k].label \o <<" ">>

(***************************************************************************)
(* C17                                                                     *)
(***************************************************************************)
\* the file slug + ".md" of a definition request was created by a request
\* before it: it was enumerated and the workspace did not start with it
CreatedBefore(request) ==
    /\ workspaceFolders # None
    /\ \E k \in 1..Len(request.existing) :
           request.existing[k] = NewUri(workspaceFolders[1][1], request.sluggedFileName)
    /\ \A file \in InitialFiles :
           file.uri # NewUri(workspaceFolders[1][1], request.sluggedFileName)

\* C17: once a definition request has created slug.md, every later request
\* on a token of the same slug returns that file and writes nothing, so the
\* file keeps the heading the first request wrote
C17_DefinitionIdempotent ==
    (/\ definition # None
     /\ definition[1].found # None
     /\ CreatedBefore(definition[1])) =>
        /\ definition[1].written = <<>>
        /\ definition[1].location
               = Some([uri |-> Some(NewUri(workspaceFolders[1][1],
                                           definition[1].sluggedFileName)),
                       line |-> 0, character |-> 0])

(***************************************************************************)
(* SpecRace: provideDefinition requests in flight at the same time; a      *)
(* request yields at the enumeration of the files and at the write         *)
(***************************************************************************)
MaxRequests == 2     \* definition requests started

\* "[[A]] [[a]]"
TextLinks == << <<"[", "[", "A", "]", "]", " ", "[", "[", "a", "]", "]">> >>

\* completions.ts 221-242: up to the await of getWorkspaceMarkdownFiles()
Started(d, position, found) ==
    [document |-> d, position |-> position,
     selectedWord |-> GetText(textDocuments[d], found.range),
     sluggedFileName |-> Slugged(GetText(textDocuments[d], found.range)),
     pc |-> "finding", files |-> <<>>, wrote |-> FALSE, location |-> None]

StartDefinitionFound(d, position, found) ==
    /\ found # None
    /\ requests' = Append(requests, Started(d, position, found[1]))
    /\ UNCHANGED <<workspaceFolders, disk, textDocuments, lastIndex, completion,
                   definition, slugIn, slugOut, titles, utilCall, pass>>

\* the editor asks for the definition at a position; a request that finds no
\* token returns at once
StartDefinition(d, position) ==
    /\ Len(requests) < MaxRequests
    /\ StartDefinitionFound(d, position,
                            FirstStrategy(DefinitionStrategies, textDocuments[d],
                                          position, "match"))

\* completions.ts 242-251: the enumeration resolved with the files there are
\* now; the request returns files[0], or goes on to write the new file
Enumerated(request, files) ==
    [request EXCEPT
        !.files = files,
        !.pc = IF files = <<>> /\ workspaceFolders # None THEN "writing" ELSE "done",
        !.location = IF files = <<>> /\ workspaceFolders # None THEN None
                     ELSE Some([uri |-> IF files = <<>> THEN None ELSE Some(files[1]),
                                line |-> 0, character |-> 0])]

FilesFound(r) ==
    /\ r <= Len(requests)
    /\ requests[r].pc = "finding"
    /\ requests' = [requests EXCEPT
                       ![r] = Enumerated(@, FilesNamed(getWorkspaceMarkdownFiles,
                                                       requests[r].sluggedFileName))]
    /\ UNCHANGED <<workspaceFolders, disk, textDocuments, lastIndex, completion,
                   definition, slugIn, slugOut, titles, utilCall, pass>>

\* completions.ts 252-259: the write completed; the request returns the new uri
FileWritten(r) ==
    /\ r <= Len(requests)
    /\ requests[r].pc = "writing"
    /\ disk' = WriteFile(disk,
                         NewUri(workspaceFolders[1][1], requests[r].sluggedFileName),
                         <<(<<"#", " ">> \o requests[r].selectedWord)>>)
    /\ requests' = [requests EXCEPT
                       ![r].files = <<NewUri(workspaceFolders[1][1],
                                             requests[r].sluggedFileName)>>,
                       ![r].wrote = TRUE,
                       ![r].pc = "done",
                       ![r].location =
                           Some([uri |-> Some(NewUri(workspaceFolders[1][1],
                                                     requests[r].sluggedFileName)),
                                 line |-> 0, character |-> 0])]
    /\ UNCHANGED <<workspaceFolders, textDocuments, lastIndex, completion,
                   definition, slugIn, slugOut, titles, utilCall, pass>>

InitRace ==
    /\ workspaceFolders \in Roots
    /\ disk \in {<<FileC>>, <<FileSubAB, FileC>>}
    /\ \E text \in {TextLinks, TextBang, TextHeading} :
           textDocuments = <<[uri |-> NoteUri, text |-> text]>>
    /\ lastIndex = ZeroLastIndex
    /\ completion = None
    /\ definition = None
    /\ slugIn = <<>>
    /\ slugOut = None
    /\ RestIdle

NextRace ==
    \/ \E d \in 1..Len(textDocuments) :
           \E position \in Positions(textDocuments[d]) : StartDefinition(d, position)
    \/ \E r \in 1..MaxRequests : FilesFound(r)
    \/ \E r \in 1..MaxRequests : FileWritten(r)

SpecRace == InitRace /\ [][NextRace]_vars

(***************************************************************************)
(* C18                                                                     *)
(***************************************************************************)
\* the requests of the slug have all returned, and the workspace started
\* with no markdown file of that base name
SettledFromNothing(slug) ==
    /\ workspaceFolders # None
    /\ \A r \in 1..Len(requests) :
           requests[r].sluggedFileName = slug => requests[r].pc = "done"
    /\ \A i \in 1..Len(disk) :
           (MatchesMd(disk[i].uri.base) /\ ParseName(disk[i].uri.base) = slug)
               => disk[i] \notin InitialFiles

\* C18: when two definition requests of the same slug run at the same time
\* and no file matched at first, then in any interleaving at most one file of
\* that base name is at the workspace root afterwards, both requests return a
\* location of the same path, and the content of the file is "# " and the
\* text of one of the requests
C18_ConcurrentDefinitionsOneFile ==
    \A r1 \in 1..Len(requests) : \A r2 \in 1..Len(requests) :
        (/\ r1 # r2
         /\ requests[r1].sluggedFileName = requests[r2].sluggedFileName
         /\ SettledFromNothing(requests[r1].sluggedFileName)) =>
            /\ Cardinality({i \in 1..Len(disk) :
                               /\ disk[i].uri.dir = workspaceFolders[1][1]
                               /\ ParseName(disk[i].uri.base) = requests[r1].sluggedFileName})
                   <= 1
            /\ Cardinality({i \in 1..Len(disk) :
                               disk[i].uri = NewUri(workspaceFolders[1][1],
                                                    requests[r1].sluggedFileName)}) = 1
            /\ requests[r1].location = requests[r2].location
            /\ requests[r1].location
                   = Some([uri |-> Some(NewUri(workspaceFolders[1][1],
                                               requests[r1].sluggedFileName)),
                           line |-> 0, character |-> 0])
            /\ \E r \in 1..Len(requests) :
                   /\ requests[r].sluggedFileName = requests[r1].sluggedFileName
                   /\ FileText(disk, NewUri(workspaceFolders[1][1],
                                            requests[r1].sluggedFileName))
                          = <<(<<"#", " ">> \o requests[r].selectedWord)>>

\* two requests of one slug and of different link texts both wrote the file,
\* and it holds the text of the request that started first, which wrote last
C18_Witness ==
    /\ Len(requests) = 2
    /\ requests[1].pc = "done" /\ requests[2].pc = "done"
    /\ requests[1].wrote /\ requests[2].wrote
    /\ requests[1].sluggedFileName = <<"a">>
    /\ requests[2].sluggedFileName = <<"a">>
    /\ requests[1].selectedWord # requests[2].selectedWord
    /\ FileText(disk, NewUri(workspaceFolders[1][1], <<"a">>))
           = <<(<<"#", " ">> \o requests[1].selectedWord)>>

====
